---- MODULE Spec2Model ----
(***************************************************************************)
(* A model of the CS428 web proxy: the concurrent variant                  *)
(* (src/concurrentproxy.c) and the sequential variant                      *)
(* (src/unnamed/part_000).  One state machine covers both programs; the    *)
(* variable `variant` says which binary is running.                        *)
(*                                                                         *)
(* C strings are sequences of one-character strings, so that the string    *)
(* functions the proxies call (strcasecmp, strstr, strpbrk, strchr, atoi,  *)
(* sscanf) are computed character by character.                            *)
(***************************************************************************)
EXTENDS Integers, Sequences, FiniteSets, TLC

(***************************************************************************)
(* Bounds of the model.                                                    *)
(***************************************************************************)
\* Connections accepted in one run.
MaxSessions == 2
\* Lines an upstream server sends before it closes.
MaxLines == 2
\* The most bytes one Rio_readlineb call returns (MAXLINE - 1 in the program):
\* a longer line comes back in several reads.
MaxRead == 2
\* Lines a blocklist file may have beyond the size of the blocklist array.
MaxExtraLines == 1

\* #define MAX_BLOCKLIST 100: the rows of the blocklist array.
MAX_BLOCKLIST == 100

(***************************************************************************)
(* Program constants.                                                      *)
(***************************************************************************)
\* parse_uri: *port = 80
DefaultPort == 80
\* strncasecmp(uri, "http://", 7) and hostbegin = uri + 7
SchemeLen == 7
\* strncasecmp(uri, "https://", 8)
HttpsLen == 8

(***************************************************************************)
(* C string functions.                                                     *)
(***************************************************************************)
LowerMap ==
    [c \in {"A","B","C","D","E","F","G","H","I","J","K","L","M",
            "N","O","P","Q","R","S","T","U","V","W","X","Y","Z"} |->
        CASE c = "A" -> "a" [] c = "B" -> "b" [] c = "C" -> "c" [] c = "D" -> "d"
          [] c = "E" -> "e" [] c = "F" -> "f" [] c = "G" -> "g" [] c = "H" -> "h"
          [] c = "I" -> "i" [] c = "J" -> "j" [] c = "K" -> "k" [] c = "L" -> "l"
          [] c = "M" -> "m" [] c = "N" -> "n" [] c = "O" -> "o" [] c = "P" -> "p"
          [] c = "Q" -> "q" [] c = "R" -> "r" [] c = "S" -> "s" [] c = "T" -> "t"
          [] c = "U" -> "u" [] c = "V" -> "v" [] c = "W" -> "w" [] c = "X" -> "x"
          [] c = "Y" -> "y" [] c = "Z" -> "z"]

\* tolower(3)
ToLower(c) == IF c \in DOMAIN LowerMap THEN LowerMap[c] ELSE c

\* The character at offset i-1 of a C string; the terminator past its end.
CharAt(s, i) == IF i <= Len(s) THEN s[i] ELSE "NUL"

\* strncasecmp(a, b, n) == 0
RECURSIVE StrNCaseEqFrom(_, _, _, _)
StrNCaseEqFrom(a, b, n, i) ==
    IF i > n THEN TRUE
    ELSE IF ToLower(CharAt(a, i)) # ToLower(CharAt(b, i)) THEN FALSE
    ELSE IF CharAt(a, i) = "NUL" THEN TRUE
    ELSE StrNCaseEqFrom(a, b, n, i + 1)

StrNCaseEq(a, b, n) == StrNCaseEqFrom(a, b, n, 1)

\* strcasecmp(a, b) == 0
StrCaseEq(a, b) == StrNCaseEqFrom(a, b, Len(a) + Len(b) + 1, 1)

\* strstr(hay, needle) != NULL
StrStr(hay, needle) ==
    \E i \in 0..(Len(hay) - Len(needle)) :
        SubSeq(hay, i + 1, i + Len(needle)) = needle

\* strpbrk(s + from - 1, accept): the index of the first character of s, at or
\* after index from, that is in accept; 0 for NULL.
RECURSIVE StrPBrk(_, _, _)
StrPBrk(s, from, accept) ==
    IF from > Len(s) THEN 0
    ELSE IF s[from] \in accept THEN from
    ELSE StrPBrk(s, from + 1, accept)

\* strchr(s + from - 1, c): index of the first c at or after from; 0 for NULL.
StrChr(s, from, c) == StrPBrk(s, from, {c})

DigitVal ==
    [c \in {"0","1","2","3","4","5","6","7","8","9"} |->
        CASE c = "0" -> 0 [] c = "1" -> 1 [] c = "2" -> 2 [] c = "3" -> 3
          [] c = "4" -> 4 [] c = "5" -> 5 [] c = "6" -> 6 [] c = "7" -> 7
          [] c = "8" -> 8 [] c = "9" -> 9]

\* atoi(s + from - 1): the decimal value of the digits that start at from
\* (0 when there are none).
RECURSIVE AtoiFrom(_, _, _)
AtoiFrom(s, from, acc) ==
    IF from > Len(s) \/ s[from] \notin DOMAIN DigitVal THEN acc
    ELSE AtoiFrom(s, from + 1, acc * 10 + DigitVal[s[from]])

Atoi(s, from) == AtoiFrom(s, from, 0)

\* The suffix of s that starts at index from (strcpy(dst, s + from - 1)).
Suffix(s, from) == SubSeq(s, from, Len(s))

(***************************************************************************)
(* String literals of the source.                                          *)
(***************************************************************************)
S_http == <<"h","t","t","p",":","/","/">>
S_https == <<"h","t","t","p","s",":","/","/">>
S_GET == <<"G","E","T">>
S_HEAD == <<"H","E","A","D">>
S_slash == <<"/">>
\* The accept set of strpbrk(hostbegin, " :/\r\n\0"): the literal's own \0
\* ends the set, so the terminator of the URI is not a member.
HostEndChars == {" ", ":", "/", "\r", "\n"}
WhiteSpace == {" ", "\t", "\r", "\n"}

(***************************************************************************)
(* sscanf(buf, "%s %s %s", method, uri, version): the first three          *)
(* whitespace-separated tokens of the line.                                *)
(***************************************************************************)
RECURSIVE SkipSpace(_, _)
SkipSpace(s, i) ==
    IF i <= Len(s) /\ s[i] \in WhiteSpace THEN SkipSpace(s, i + 1) ELSE i

\* Where the token that begins at b ends: one past its last character.
TokenEnd(s, b) ==
    IF StrPBrk(s, b, WhiteSpace) = 0 THEN Len(s) + 1
    ELSE StrPBrk(s, b, WhiteSpace)

\* The tokens of s from position i on.  The begin b and the end of the next
\* token are bound as values, each computed once.
RECURSIVE Tokens(_, _)
Tokens(s, i) ==
    CHOOSE toks \in UNION { { IF b > Len(s) THEN <<>>
                              ELSE <<SubSeq(s, b, stop - 1)>> \o Tokens(s, stop) :
                                stop \in {TokenEnd(s, b)} } :
                            b \in {SkipSpace(s, i)} } : TRUE

Sscanf3(buf) == SubSeq(Tokens(buf, 1), 1, 3)

(***************************************************************************)
(* parse_uri of the concurrent proxy.                                      *)
(***************************************************************************)
ParseFail == [ok |-> FALSE, hostname |-> <<>>, port |-> 0, pathname |-> <<>>]

\* The part of parse_uri after the scheme test, common to both variants:
\* both compute from hostbegin = uri + 7.
ParseFrom(uri, hostbegin) ==
    LET hostend == StrPBrk(uri, hostbegin, HostEndChars)
        pathbegin == StrChr(uri, hostbegin, "/")
    IN IF hostend = 0 THEN ParseFail
       ELSE [ok |-> TRUE,
             hostname |-> SubSeq(uri, hostbegin, hostend - 1),
             port |-> IF uri[hostend] = ":" THEN Atoi(uri, hostend + 1)
                      ELSE DefaultPort,
             pathname |-> IF pathbegin # 0 THEN Suffix(uri, pathbegin)
                          ELSE S_slash]

parse_uri_concurrent(uri) ==
    IF ~StrNCaseEq(uri, S_http, SchemeLen) THEN ParseFail
    ELSE ParseFrom(uri, SchemeLen + 1)

\* parse_uri of the sequential proxy: https:// passes the scheme test too,
\* and hostbegin is then overwritten with uri + 7 whatever the scheme.
parse_uri_sequential(uri) ==
    IF ~StrNCaseEq(uri, S_http, SchemeLen) /\ ~StrNCaseEq(uri, S_https, HttpsLen)
    THEN ParseFail
    ELSE ParseFrom(uri, SchemeLen + 1)

(***************************************************************************)
(* read_blocklist: every non-empty line of the file becomes an entry, in   *)
(* file order; an absent file leaves the blocklist empty.                  *)
(***************************************************************************)
RECURSIVE read_blocklist(_)
read_blocklist(lines) ==
    IF lines = <<>> THEN <<>>
    ELSE IF Len(Head(lines)) > 0
         THEN <<Head(lines)>> \o read_blocklist(Tail(lines))
         ELSE read_blocklist(Tail(lines))

\* The array index of the last fgets of a load: each line is read into
\* blocklist[blocklist_count], and the count moves on after a non-empty line.
LastWriteIndex(lines) ==
    IF lines = <<>> THEN -1
    ELSE Len(read_blocklist(SubSeq(lines, 1, Len(lines) - 1)))

(***************************************************************************)
(* The workload: blocklist files, request lines and upstream responses.    *)
(***************************************************************************)
H_a == <<"a",".","c","o">>
H_A == <<"A",".","C","O">>
H_xa == <<"x","a",".","c","o">>
H_b == <<"b",".","c","o">>
H_B == <<"B",".","c","o">>

S_HTTP_upper == <<"H","T","T","P",":","/","/">>
S_ftp == <<"f","t","p",":","/","/">>
S_head_lower == <<"h","e","a","d">>
S_POST == <<"P","O","S","T">>
S_v11 == <<"H","T","T","P","/","1",".","1">>
S_v10 == <<"H","T","T","P","/","1",".","0">>
S_8080 == <<"8","0","8","0">>
S_ab == <<"/","a","/","b">>

\* A request line, by its parts.  port = <<>> stands for "no :port".
Request(m, sc, h, po, pa, v) ==
    [method |-> m, scheme |-> sc, host |-> h, port |-> po, path |-> pa,
     version |-> v]

\* The client of a one-connection run sends any of these.
WideRequests ==
    { Request(m, sc, h, po, pa, v) :
        m \in {S_GET, S_head_lower, S_POST},
        sc \in {S_http, S_HTTP_upper, S_https, S_ftp},
        h \in {H_a, H_A, H_xa, H_b},
        po \in {<<>>, S_8080},
        pa \in {<<>>, S_slash, S_ab, S_slash \o H_a},
        v \in {S_v11, S_v10} }

\* Each client of a two-connection run sends one of these: a relayed request,
\* an unsupported method, a request for a listed host, a malformed URI.
NarrowRequests ==
    { Request(S_GET, S_http, H_b, <<>>, S_slash, S_v11),
      Request(S_POST, S_http, H_b, <<>>, S_slash, S_v11),
      Request(S_GET, S_http, H_a, <<>>, S_ab, S_v11),
      Request(S_GET, S_ftp, H_b, <<>>, S_slash, S_v11) }

\* Each client of a run with more connections sends this one, or nothing.
MinimalRequests ==
    { Request(S_GET, S_http, H_b, <<>>, S_slash, S_v11) }

RECURSIVE SeqsUpTo(_, _)
SeqsUpTo(S, k) ==
    IF k = 0 THEN {<<>>}
    ELSE LET shorter == SeqsUpTo(S, k - 1)
         IN shorter \cup { Append(q, x) : q \in shorter, x \in S }

\* The workload of a run with n connections: the contents of blocklist.txt
\* (lines without their newline), the request lines a client may send and
\* the responses (as line lengths) an upstream server may give.  The more
\* connections a run makes, the fewer inputs each of them draws from.  The
\* lines of a one-connection run do not fit one read.
Workload(n) ==
    IF n = 1 THEN [files |-> { <<>>, <<H_a>>, <<H_B, <<>>, H_a>> },
                   requests |-> WideRequests,
                   responses |-> SeqsUpTo({MaxRead + 1}, MaxLines)]
    ELSE IF n = 2 THEN [files |-> { <<>>, <<H_B, <<>>, H_a>> },
                        requests |-> NarrowRequests,
                        responses |-> SeqsUpTo({MaxRead}, MaxLines)]
    ELSE [files |-> { <<H_a>> },
          requests |-> MinimalRequests,
          responses |-> { <<MaxRead>> }]

\* The URI token of a request.
UriOf(r) ==
    r.scheme \o r.host \o (IF r.port # <<>> THEN <<":">> \o r.port ELSE <<>>)
             \o r.path

\* The request line on the wire.
LineOf(r) == r.method \o <<" ">> \o UriOf(r) \o <<" ">> \o r.version \o <<"\r", "\n">>

NoRequest == Request(<<>>, <<>>, <<>>, <<>>, <<>>, <<>>)

(***************************************************************************)
(* State.                                                                  *)
(***************************************************************************)
VARIABLES
    variant,          \* "concurrent" (concurrentproxy.c) or "sequential" (part_000)
    blocklist,        \* blocklist[0 .. blocklist_count-1], as a sequence
    nclients,         \* connections the environment makes in this run
    accepted,         \* connections main has accepted so far
    mainpc,           \* main's position in its accept loop
    main_clientaddr,  \* main's local clientaddr, overwritten by every Accept
    sess,             \* per session: the handler's locals and its sockets
    log_mutex,        \* 0 when free, else the session whose thread holds it
    logbuf,           \* records in the stdio buffer of the log FILE
    log_file,         \* records flushed to proxy.log
    tm_static,        \* the static struct tm of localtime(): its last writer
    alive,            \* the process is running
    loader            \* read_blocklist: its position, the lines of the file it
                      \* has yet to read, the highest array index it wrote

vars == <<variant, blocklist, nclients, accepted, mainpc, main_clientaddr,
          sess, log_mutex, logbuf, log_file, tm_static, alive, loader>>

Sessions == 1..MaxSessions

NoEntry == [tm |-> 0, ip |-> 0, uri |-> <<>>, size |-> 0]

\* A session before its connection is accepted.
IdleSession ==
    [pc |-> "idle",
     req |-> NoRequest,       \* what the client sent (not a program variable)
     gotline |-> FALSE,       \* the client sent a line at all
     method |-> <<>>, uri |-> <<>>, version |-> <<>>,
     parse |-> ParseFail,     \* hostname, pathname, port and parse_uri's result
     clientaddr |-> 0,        \* args->clientaddr
     errs |-> <<>>,           \* status codes clienterror sent on connfd
     did |-> {},              \* stages the handler has entered
     upstream |-> "none",     \* clientfd: none, failed (< 0), open, closed
     fault |-> "none",        \* the fault the handler met: connect, read, write
     upopens |-> 0,           \* connections Open_clientfd has opened
     upcloses |-> 0,          \* Close(clientfd) calls
     response |-> <<>>,       \* line lengths of the server's whole response
     resp |-> <<>>,           \* line lengths the upstream server has yet to send
     upin |-> <<>>,           \* the reads from clientfd so far, as byte ranges
     buf |-> [at |-> 0, n |-> 0],  \* the byte range the last read left in buf
     out |-> <<>>,            \* the relay's writes to connfd, as byte ranges
     upsent |-> <<>>,         \* messages written to clientfd
     n |-> 0,                 \* the last Rio_readlineb result
     size |-> 0,              \* the running byte total
     delivered |-> 0,         \* bytes written to connfd by the relay
     closes |-> 0,            \* Close(connfd) calls
     log_entry |-> NoEntry]

Init ==
    /\ variant \in {"concurrent", "sequential"}
    /\ nclients \in 1..MaxSessions
    /\ \E f \in Workload(nclients).files :
          /\ blocklist = read_blocklist(f)
          /\ loader = [pc |-> "loaded", file |-> <<>>, whole |-> f,
                       maxwrite |-> LastWriteIndex(f)]
    /\ accepted = 0
    /\ mainpc = "accept"
    /\ main_clientaddr = 0
    /\ sess = [s \in Sessions |-> IdleSession]
    /\ log_mutex = 0
    /\ logbuf = <<>>
    /\ log_file = <<>>
    /\ tm_static = 0
    /\ alive = TRUE

(***************************************************************************)
(* main: the accept loop.                                                  *)
(***************************************************************************)
\* Accept(listenfd, &clientaddr, &clientlen).  The k-th client connects from
\* address k.  The sequential main calls proxy() at once, so it accepts only
\* when no transaction is in progress.
Accept ==
    /\ alive
    /\ mainpc = "accept"
    /\ accepted < nclients
    /\ accepted' = accepted + 1
    /\ main_clientaddr' = accepted + 1
    /\ IF variant = "concurrent"
       THEN /\ mainpc' = "spawn"
            /\ sess' = sess
       ELSE /\ mainpc' = "proxy"
            /\ sess' = [sess EXCEPT ![accepted + 1].pc = "read",
                                    ![accepted + 1].clientaddr = accepted + 1]
    /\ UNCHANGED <<variant, blocklist, nclients, log_mutex, logbuf, log_file,
                   tm_static, alive,
                   loader>>

\* args->clientaddr = clientaddr; pthread_create(&tid, NULL, thread, args)
Spawn ==
    /\ alive
    /\ variant = "concurrent"
    /\ mainpc = "spawn"
    /\ mainpc' = "accept"
    /\ sess' = [sess EXCEPT ![accepted].pc = "read",
                            ![accepted].clientaddr = main_clientaddr]
    /\ UNCHANGED <<variant, blocklist, nclients, accepted, main_clientaddr,
                   log_mutex, logbuf, log_file, tm_static, alive,
                   loader>>

(***************************************************************************)
(* proxy: one transaction.                                                 *)
(***************************************************************************)
HandlerUnchanged ==
    UNCHANGED <<variant, blocklist, nclients, accepted, mainpc,
                main_clientaddr, log_mutex, logbuf, log_file, tm_static, alive,
                   loader>>

\* The error path with a Close(connfd) of its own before the return.
clienterror_Closes(h, errnum) ==
    [h EXCEPT !.errs = Append(@, errnum), !.closes = @ + 1, !.pc = "returned"]

\* clienterror(connfd, cause, errnum, ...); return;
\* on the handler's record h: the error page goes out on connfd and proxy
\* returns.
clienterror(h, errnum) ==
    [h EXCEPT !.errs = Append(@, errnum), !.pc = "returned"]

\* if (!Rio_readlineb(&rio, buf, MAXLINE)) return;
ReadEmpty(s) ==
    /\ alive
    /\ sess[s].pc = "read"
    /\ sess' = [sess EXCEPT ![s].pc = "returned"]
    /\ HandlerUnchanged

\* Rio_readlineb(&rio, buf, MAXLINE); sscanf(buf, "%s %s %s", method, uri, version)
ReadRequest(s) ==
    /\ alive
    /\ sess[s].pc = "read"
    /\ \E r \in Workload(nclients).requests :
       \E tok \in {Sscanf3(CHOOSE line \in {LineOf(r)} : TRUE)} :
             sess' = [sess EXCEPT ![s].req = r,
                                  ![s].gotline = TRUE,
                                  ![s].method = tok[1],
                                  ![s].uri = tok[2],
                                  ![s].version = tok[3],
                                  ![s].pc = "method"]
    /\ HandlerUnchanged

\* The method test with its second comparison inverted.
MethodUnsupported_Inverted(method) ==
    ~StrCaseEq(method, S_GET) /\ StrCaseEq(method, S_HEAD)

\* strcasecmp(method, "GET") != 0 && strcasecmp(method, "HEAD") != 0
MethodUnsupported(method) ==
    ~StrCaseEq(method, S_GET) /\ ~StrCaseEq(method, S_HEAD)

\* The stage after the method test: the concurrent proxy filters the raw URI
\* first, the sequential proxy parses first.
AfterMethod == IF variant = "concurrent" THEN "filter" ELSE "parse"

CheckMethod(s) ==
    /\ alive
    /\ sess[s].pc = "method"
    /\ IF MethodUnsupported(sess[s].method)
       THEN sess' = [sess EXCEPT ![s] = clienterror(@, "501")]
       ELSE sess' = [sess EXCEPT ![s].pc = AfterMethod]
    /\ HandlerUnchanged

\* The blocklist test of the running variant:
\*   concurrent: strstr(uri, blocklist[i]) != NULL
\*   sequential: strcasecmp(hostname, blocklist[i]) == 0
Blocked(v, uri, hostname, bl) ==
    \E i \in 1..Len(bl) :
        IF v = "concurrent" THEN StrStr(uri, bl[i])
        ELSE StrCaseEq(hostname, bl[i])

AfterFilter == IF variant = "concurrent" THEN "parse" ELSE "connect"

CheckBlocklist(s) ==
    /\ alive
    /\ sess[s].pc = "filter"
    /\ IF Blocked(variant, sess[s].uri, sess[s].parse.hostname, blocklist)
       THEN sess' = [sess EXCEPT
                        ![s] = clienterror([@ EXCEPT !.did = @ \cup {"filter"}],
                                           "403")]
       ELSE sess' = [sess EXCEPT ![s].did = @ \cup {"filter"},
                                 ![s].pc = AfterFilter]
    /\ HandlerUnchanged

parse_uri(v, uri) ==
    IF v = "concurrent" THEN parse_uri_concurrent(uri)
    ELSE parse_uri_sequential(uri)

AfterParse == IF variant = "concurrent" THEN "connect" ELSE "filter"

\* if (parse_uri(uri, hostname, pathname, &port) < 0) { clienterror 400; return; }
ParseUri(s) ==
    /\ alive
    /\ sess[s].pc = "parse"
    /\ LET res == parse_uri(variant, sess[s].uri)
       IN IF ~res.ok
          THEN sess' = [sess EXCEPT
                           ![s] = clienterror([@ EXCEPT !.parse = res,
                                                        !.did = @ \cup {"parse"}],
                                              "400")]
          ELSE sess' = [sess EXCEPT ![s].parse = res,
                                    ![s].did = @ \cup {"parse"},
                                    ![s].pc = AfterParse]
    /\ HandlerUnchanged

\* The connect failure path without its return: the error page is sent and
\* the handler carries on with the request.
ConnectFail_NoReturn(s) ==
    /\ alive
    /\ sess[s].pc = "connect"
    /\ sess' = [sess EXCEPT
                   ![s] = [clienterror([@ EXCEPT !.upstream = "failed",
                                                !.fault = "connect",
                                                 !.did = @ \cup {"connect"}],
                                       "404") EXCEPT !.pc = "send"]]
    /\ HandlerUnchanged

\* clientfd = Open_clientfd(hostname, port_str); clientfd < 0:
\* clienterror 404; return;
ConnectFail(s) ==
    /\ alive
    /\ sess[s].pc = "connect"
    /\ sess' = [sess EXCEPT
                   ![s] = clienterror([@ EXCEPT !.upstream = "failed",
                                                !.fault = "connect",
                                                !.did = @ \cup {"connect"}],
                                      "404")]
    /\ HandlerUnchanged

\* clientfd = Open_clientfd(hostname, port_str) succeeds; the server at the
\* other end will send some response.
ConnectOk(s) ==
    /\ alive
    /\ sess[s].pc = "connect"
    /\ \E r \in Workload(nclients).responses :
          sess' = [sess EXCEPT ![s].upstream = "open",
                               ![s].upopens = @ + 1,
                               ![s].response = r,
                               ![s].resp = r,
                               ![s].did = @ \cup {"connect"},
                               ![s].pc = "send"]
    /\ HandlerUnchanged

(***************************************************************************)
(* The request sent upstream.  Text the program builds from literals is a  *)
(* sequence whose elements are the characters that came from the client    *)
(* and the pieces of the literals: a header's field name with its ": ", a  *)
(* header's value, a line end.                                             *)
(***************************************************************************)
CRLF == "\r\n"

user_agent_hdr ==
    <<"User-Agent: ",
      "Mozilla/5.0 (X11; Linux x86_64; rv:10.0.3) Gecko/20120305 Firefox/10.0.3",
      CRLF>>

\* "%s %s HTTP/1.0\r\nHost: %s\r\n"
request_line_format(method, path, hostname) ==
    method \o <<" ">> \o path \o <<" ", "HTTP/1.0", CRLF>>
           \o <<"Host: ">> \o hostname \o <<CRLF>>

\* concurrentproxy.c: "User-Agent: %sConnection: close\r\nProxy-Connection: close\r\n\r\n"
headers_format_concurrent(ua) ==
    <<"User-Agent: ">> \o ua
        \o <<"Connection: close", CRLF, "Proxy-Connection: close", CRLF, CRLF>>

\* part_000: "%sConnection: close\r\nProxy-Connection: close\r\n\r\n"
headers_format_sequential(ua) ==
    ua \o <<"Connection: close", CRLF, "Proxy-Connection: close", CRLF, CRLF>>

\* buf after the two snprintf calls.
upstream_request(v, method, pathname, hostname) ==
    request_line_format(method,
                        IF pathname # <<>> THEN pathname ELSE S_slash,
                        hostname)
      \o (IF v = "concurrent" THEN headers_format_concurrent(user_agent_hdr)
                              ELSE headers_format_sequential(user_agent_hdr))

\* snprintf(buf, ..., method, pathname[0] ? pathname : "/", hostname);
\* snprintf(buf + strlen(buf), ..., user_agent_hdr);
\* Rio_writen(clientfd, buf, strlen(buf));
SendRequest(s) ==
    /\ alive
    /\ sess[s].pc = "send"
    /\ sess' = [sess EXCEPT
          ![s].upsent = Append(@, upstream_request(variant, sess[s].method,
                                                   sess[s].parse.pathname,
                                                   sess[s].parse.hostname)),
          ![s].did = @ \cup {"send"},
          ![s].pc = "relay_read"]
    /\ HandlerUnchanged

\* Bytes of a stream are named by their position in it; a read or a write
\* moves a range of them: n bytes starting after the first `at'.
RECURSIVE TotalBytes(_)
TotalBytes(ranges) ==
    IF ranges = <<>> THEN 0 ELSE Head(ranges).n + TotalBytes(Tail(ranges))

RECURSIVE SumOf(_)
SumOf(lens) == IF lens = <<>> THEN 0 ELSE Head(lens) + SumOf(Tail(lens))

\* What Rio_readlineb(&server_rio, buf, MAXLINE) makes of the lines the server
\* has yet to send: the bytes it returns and the lines left after it.  It
\* stops after the newline or after MaxRead bytes, whichever comes first.
ReadLine(lines) ==
    IF Head(lines) <= MaxRead
    THEN [n |-> Head(lines), rest |-> Tail(lines)]
    ELSE [n |-> MaxRead, rest |-> <<Head(lines) - MaxRead>> \o Tail(lines)]

\* The read loop without its write: the lines are read one after the other
\* and nothing is forwarded between two reads.
RelayRead_ReadAhead(s) ==
    /\ alive
    /\ sess[s].pc = "relay_read"
    /\ IF sess[s].resp # <<>>
       THEN LET r == ReadLine(sess[s].resp)
                range == [at |-> TotalBytes(sess[s].upin), n |-> r.n]
            IN sess' = [sess EXCEPT ![s].n = r.n,
                                    ![s].resp = r.rest,
                                    ![s].buf = range,
                                    ![s].upin = Append(@, range)]
       ELSE sess' = [sess EXCEPT ![s].n = 0, ![s].pc = "format"]
    /\ HandlerUnchanged

\* n = Rio_readlineb(&server_rio, buf, MAXLINE): the next line (or the next
\* MaxRead bytes of it), or 0 at the end of the stream.
RelayRead(s) ==
    /\ alive
    /\ sess[s].pc = "relay_read"
    /\ IF sess[s].resp # <<>>
       THEN LET r == ReadLine(sess[s].resp)
                range == [at |-> TotalBytes(sess[s].upin), n |-> r.n]
            IN sess' = [sess EXCEPT ![s].n = r.n,
                                    ![s].resp = r.rest,
                                    ![s].buf = range,
                                    ![s].upin = Append(@, range),
                                    ![s].pc = "relay_write"]
       ELSE sess' = [sess EXCEPT ![s].n = 0, ![s].pc = "format"]
    /\ HandlerUnchanged

\* The upstream connection breaks in mid-stream: the read loop ends.
RelayReadError(s) ==
    /\ alive
    /\ sess[s].pc = "relay_read"
    /\ sess[s].resp # <<>>
    /\ sess' = [sess EXCEPT ![s].n = 0, ![s].fault = "read",
                            ![s].pc = "format"]
    /\ HandlerUnchanged

\* The loop body counting its iterations: size++ where the code has size += n.
RelayWrite_CountsLines(s) ==
    /\ alive
    /\ sess[s].pc = "relay_write"
    /\ sess' = [sess EXCEPT ![s].delivered = @ + sess[s].n,
                            ![s].out = Append(@, [at |-> sess[s].buf.at,
                                                  n |-> sess[s].n]),
                            ![s].size = @ + 1,
                            ![s].pc = "relay_read"]
    /\ HandlerUnchanged

\* Rio_writen(connfd, buf, n); size += n;
RelayWrite(s) ==
    /\ alive
    /\ sess[s].pc = "relay_write"
    /\ sess' = [sess EXCEPT ![s].delivered = @ + sess[s].n,
                            ![s].out = Append(@, [at |-> sess[s].buf.at,
                                                  n |-> sess[s].n]),
                            ![s].size = @ + sess[s].n,
                            ![s].pc = "relay_read"]
    /\ HandlerUnchanged

\* Rio_writen(connfd, buf, n) after the client has gone away.  The client's
\* end has answered an earlier write of the relay with a reset, so this write
\* raises SIGPIPE; main installs no handler for it and does not ignore it,
\* and the signal's default action ends the process, all threads included.
RelayWriteSigpipe(s) ==
    /\ alive
    /\ sess[s].pc = "relay_write"
    /\ sess[s].delivered > 0
    /\ alive' = FALSE
    /\ sess' = [sess EXCEPT ![s].fault = "write"]
    /\ UNCHANGED <<variant, blocklist, nclients, accepted, mainpc,
                   main_clientaddr, log_mutex, logbuf, log_file, tm_static,
                   loader>>

(***************************************************************************)
(* Logging.  format_log_entry runs in proxy, before log_request is called. *)
(***************************************************************************)
\* format_log_entry, first half: now = time(NULL); localtime(&now) fills the
\* C library's static struct tm and returns its address.
FormatBegin(s) ==
    /\ alive
    /\ sess[s].pc = "format"
    /\ tm_static' = s
    /\ sess' = [sess EXCEPT ![s].pc = "formatting"]
    /\ UNCHANGED <<variant, blocklist, nclients, accepted, mainpc,
                   main_clientaddr, log_mutex, logbuf, log_file, alive,
                   loader>>

\* format_log_entry, second half: strftime reads the static struct tm,
\* inet_ntop converts the address, sprintf builds the record.
AfterFormat == IF variant = "concurrent" THEN "lock" ELSE "fprintf"

\* format_log_entry given main's clientaddr instead of the thread's copy.
FormatEnd_MainAddr(s) ==
    /\ alive
    /\ sess[s].pc = "formatting"
    /\ sess' = [sess EXCEPT ![s].log_entry = [tm |-> tm_static,
                                              ip |-> main_clientaddr,
                                              uri |-> sess[s].uri,
                                              size |-> sess[s].size],
                            ![s].pc = AfterFormat]
    /\ HandlerUnchanged

FormatEnd(s) ==
    /\ alive
    /\ sess[s].pc = "formatting"
    /\ sess' = [sess EXCEPT ![s].log_entry = [tm |-> tm_static,
                                              ip |-> sess[s].clientaddr,
                                              uri |-> sess[s].uri,
                                              size |-> sess[s].size],
                            ![s].pc = AfterFormat]
    /\ HandlerUnchanged

\* A lock that does not wait for the mutex to be free.
LogLock_NoWait(s) ==
    /\ alive
    /\ sess[s].pc = "lock"
    /\ log_mutex' = s
    /\ sess' = [sess EXCEPT ![s].pc = "fprintf"]
    /\ UNCHANGED <<variant, blocklist, nclients, accepted, mainpc,
                   main_clientaddr, logbuf, log_file, tm_static, alive,
                   loader>>

\* log_request: pthread_mutex_lock(&log_mutex)
LogLock(s) ==
    /\ alive
    /\ sess[s].pc = "lock"
    /\ log_mutex = 0
    /\ log_mutex' = s
    /\ sess' = [sess EXCEPT ![s].pc = "fprintf"]
    /\ UNCHANGED <<variant, blocklist, nclients, accepted, mainpc,
                   main_clientaddr, logbuf, log_file, tm_static, alive,
                   loader>>

\* The write of a record done twice over.
LogWrite_Twice(s) ==
    /\ alive
    /\ sess[s].pc = "fprintf"
    /\ logbuf' = logbuf \o <<sess[s].log_entry, sess[s].log_entry>>
    /\ sess' = [sess EXCEPT ![s].did = @ \cup {"log"}, ![s].pc = "fflush"]
    /\ UNCHANGED <<variant, blocklist, nclients, accepted, mainpc,
                   main_clientaddr, log_mutex, log_file, tm_static, alive,
                   loader>>

\* fprintf(log_file, "%s\n", log_entry)
LogWrite(s) ==
    /\ alive
    /\ sess[s].pc = "fprintf"
    /\ logbuf' = Append(logbuf, sess[s].log_entry)
    /\ sess' = [sess EXCEPT ![s].did = @ \cup {"log"}, ![s].pc = "fflush"]
    /\ UNCHANGED <<variant, blocklist, nclients, accepted, mainpc,
                   main_clientaddr, log_mutex, log_file, tm_static, alive,
                   loader>>

AfterFlush == IF variant = "concurrent" THEN "unlock" ELSE "close_upstream"

\* fflush(log_file)
LogFlush(s) ==
    /\ alive
    /\ sess[s].pc = "fflush"
    /\ log_file' = log_file \o logbuf
    /\ logbuf' = <<>>
    /\ sess' = [sess EXCEPT ![s].pc = AfterFlush]
    /\ UNCHANGED <<variant, blocklist, nclients, accepted, mainpc,
                   main_clientaddr, log_mutex, tm_static, alive,
                   loader>>

\* log_request returning with the mutex still held.
LogUnlock_KeepsMutex(s) ==
    /\ alive
    /\ sess[s].pc = "unlock"
    /\ sess' = [sess EXCEPT ![s].pc = "close_upstream"]
    /\ HandlerUnchanged

\* pthread_mutex_unlock(&log_mutex)
LogUnlock(s) ==
    /\ alive
    /\ sess[s].pc = "unlock"
    /\ log_mutex' = 0
    /\ sess' = [sess EXCEPT ![s].pc = "close_upstream"]
    /\ UNCHANGED <<variant, blocklist, nclients, accepted, mainpc,
                   main_clientaddr, logbuf, log_file, tm_static, alive,
                   loader>>

\* The end of proxy without its Close(clientfd).
CloseUpstream_Leak(s) ==
    /\ alive
    /\ sess[s].pc = "close_upstream"
    /\ sess' = [sess EXCEPT ![s].pc = "returned"]
    /\ HandlerUnchanged

\* Close(clientfd), the last statement of proxy
CloseUpstream(s) ==
    /\ alive
    /\ sess[s].pc = "close_upstream"
    /\ sess' = [sess EXCEPT ![s].upstream = "closed",
                            ![s].upcloses = @ + 1,
                            ![s].pc = "returned"]
    /\ HandlerUnchanged

(***************************************************************************)
(* After proxy returns: thread() closes args->connfd in the concurrent     *)
(* proxy, main closes connfd in the sequential one and loops.              *)
(***************************************************************************)
CloseClient(s) ==
    /\ alive
    /\ sess[s].pc = "returned"
    /\ sess' = [sess EXCEPT ![s].closes = @ + 1, ![s].pc = "done"]
    /\ mainpc' = IF variant = "sequential" THEN "accept" ELSE mainpc
    /\ UNCHANGED <<variant, blocklist, nclients, accepted, main_clientaddr,
                   log_mutex, logbuf, log_file, tm_static, alive,
                   loader>>

Handler(s) ==
    \/ ReadEmpty(s)
    \/ ReadRequest(s)
    \/ CheckMethod(s)
    \/ CheckBlocklist(s)
    \/ ParseUri(s)
    \/ ConnectFail(s)
    \/ ConnectOk(s)
    \/ SendRequest(s)
    \/ RelayRead(s)
    \/ RelayReadError(s)
    \/ RelayWrite(s)
    \/ RelayWriteSigpipe(s)
    \/ FormatBegin(s)
    \/ FormatEnd(s)
    \/ LogLock(s)
    \/ LogWrite(s)
    \/ LogFlush(s)
    \/ LogUnlock(s)
    \/ CloseUpstream(s)
    \/ CloseClient(s)

Next ==
    \/ Accept
    \/ Spawn
    \/ \E s \in Sessions : Handler(s)

Spec == Init /\ [][Next]_vars

(***************************************************************************)
(* The concurrent proxy under load without faults: MaxSessions clients     *)
(* connect, each sends a request line and stays connected, every host is   *)
(* reachable and every server sends its whole response and closes.  The    *)
(* scheduler runs every thread that can take a step, main included.        *)
(***************************************************************************)
LiveInit ==
    /\ Init
    /\ variant = "concurrent"
    /\ nclients = MaxSessions

LiveHandler(s) ==
    \/ ReadRequest(s)
    \/ CheckMethod(s)
    \/ CheckBlocklist(s)
    \/ ParseUri(s)
    \/ ConnectOk(s)
    \/ SendRequest(s)
    \/ RelayRead(s)
    \/ RelayWrite(s)
    \/ FormatBegin(s)
    \/ FormatEnd(s)
    \/ LogLock(s)
    \/ LogWrite(s)
    \/ LogFlush(s)
    \/ LogUnlock(s)
    \/ CloseUpstream(s)
    \/ CloseClient(s)

LiveNext ==
    \/ Accept
    \/ Spawn
    \/ \E s \in Sessions : LiveHandler(s)

LiveSpec ==
    /\ LiveInit
    /\ [][LiveNext]_vars
    /\ WF_vars(Accept)
    /\ WF_vars(Spawn)
    /\ \A s \in Sessions : WF_vars(LiveHandler(s))

(***************************************************************************)
(* read_blocklist step by step, on files long enough to fill the array:    *)
(* some non-empty lines followed by some empty ones.  blocklist holds the  *)
(* entries counted so far, so blocklist_count is Len(blocklist).           *)
(***************************************************************************)
FileOf(entries, empties) ==
    [i \in 1..(entries + empties) |-> IF i <= entries THEN H_a ELSE <<>>]

LoadFiles ==
    { FileOf(k, j) : k \in 0..(MAX_BLOCKLIST + MaxExtraLines),
                     j \in 0..MaxExtraLines }

LoadInit ==
    /\ variant \in {"concurrent", "sequential"}
    /\ nclients = 1
    /\ blocklist = <<>>
    /\ \E f \in LoadFiles :
          loader = [pc |-> "fgets", file |-> f, whole |-> f, maxwrite |-> -1]
    /\ accepted = 0
    /\ mainpc = "accept"
    /\ main_clientaddr = 0
    /\ sess = [s \in Sessions |-> IdleSession]
    /\ log_mutex = 0
    /\ logbuf = <<>>
    /\ log_file = <<>>
    /\ tm_static = 0
    /\ alive = TRUE

LoadUnchanged ==
    UNCHANGED <<variant, nclients, accepted, mainpc, main_clientaddr, sess,
                log_mutex, logbuf, log_file, tm_static, alive>>

\* The loop body on the next line of the file: fgets writes the line into
\* blocklist[blocklist_count], the newline is cut off, and the count moves
\* on when the line is not empty.
LoadedLine(ld, bl) ==
    [loader |-> [ld EXCEPT !.file = Tail(@),
                           !.maxwrite = IF Len(bl) > @ THEN Len(bl) ELSE @],
     blocklist |-> IF Len(Head(ld.file)) > 0 THEN Append(bl, Head(ld.file))
                   ELSE bl]

\* while (fgets(blocklist[blocklist_count], MAXLINE, file) != NULL) { ... }
\* with blocklist_count a row of the array.
LoadLine ==
    /\ loader.pc = "fgets"
    /\ loader.file # <<>>
    /\ Len(blocklist) < MAX_BLOCKLIST
    /\ loader' = LoadedLine(loader, blocklist).loader
    /\ blocklist' = LoadedLine(loader, blocklist).blocklist
    /\ LoadUnchanged

\* The same statement with blocklist_count past the last row: nothing in the
\* loop compares it with MAX_BLOCKLIST, so fgets writes outside the array.
\* The behaviour is undefined: the write may land in memory the loop does not
\* depend on, and the loop carries on, or it may end the process or overwrite
\* the globals that follow the array, after which nothing can be said.
LoadLineOutside ==
    /\ loader.pc = "fgets"
    /\ loader.file # <<>>
    /\ Len(blocklist) >= MAX_BLOCKLIST
    /\ \/ /\ loader' = LoadedLine(loader, blocklist).loader
          /\ blocklist' = LoadedLine(loader, blocklist).blocklist
       \/ /\ loader' = [LoadedLine(loader, blocklist).loader
                            EXCEPT !.pc = "undefined"]
          /\ blocklist' = blocklist
    /\ LoadUnchanged

\* fgets returns NULL at the end of the file; fclose(file).
LoadEof ==
    /\ loader.pc = "fgets"
    /\ loader.file = <<>>
    /\ loader' = [loader EXCEPT !.pc = "loaded"]
    /\ UNCHANGED blocklist
    /\ LoadUnchanged

LoadNext ==
    \/ LoadLine
    \/ LoadLineOutside
    \/ LoadEof

LoadSpec == LoadInit /\ [][LoadNext]_vars

(***************************************************************************)
(* Vocabulary of the properties.  A request is described by the parts the  *)
(* client put on the wire (sess[s].req), not by what the proxy made of     *)
(* them.                                                                   *)
(***************************************************************************)
LowerStr(str) == [i \in 1..Len(str) |-> ToLower(str[i])]

S_get_lower == <<"g","e","t">>

IsGetOrHead(r) == LowerStr(r.method) \in {S_get_lower, S_head_lower}

\* The URI starts with http:// (in any letter case).
HasHttpScheme(r) == LowerStr(r.scheme) = S_http

\* The host is a blocklist entry, letter case apart.
ListedHost(h) == \E i \in 1..Len(blocklist) : LowerStr(h) = LowerStr(blocklist[i])

\* The handler of s has returned to its caller.
Returned(s) == sess[s].pc \in {"returned", "done"}

\* The decimal value of the port strings of the workload.
PortValue(digits) == IF digits = S_8080 THEN 8080 ELSE DefaultPort

\* The client of s asked, by GET or HEAD, for http://H/<path> with H listed.
C1_BlockedHostRequest(s) ==
    /\ sess[s].gotline
    /\ IsGetOrHead(sess[s].req)
    /\ sess[s].req.scheme = S_http
    /\ sess[s].req.port = <<>>
    /\ sess[s].req.path # <<>>
    /\ ListedHost(sess[s].req.host)

(***************************************************************************)
(* C1.  A GET or HEAD request for http://H/<path>, H a blocklist entry in  *)
(* any letter case, is answered 403 and no upstream connection is          *)
(* attempted, in both variants.                                            *)
(***************************************************************************)
C1_ListedHostAnswered403 ==
    \A s \in Sessions :
        C1_BlockedHostRequest(s) =>
            /\ "connect" \notin sess[s].did
            /\ Returned(s) => sess[s].errs = <<"403">>

\* The client of s asked, by GET or HEAD, for a resolvable http:// URI whose
\* host is not listed.
C2_UnlistedHostRequest(s) ==
    /\ sess[s].gotline
    /\ IsGetOrHead(sess[s].req)
    /\ sess[s].req.scheme = S_http
    /\ sess[s].req.path # <<>>
    /\ ~ListedHost(sess[s].req.host)

(***************************************************************************)
(* C2.  A GET or HEAD request whose URI resolves to a hostname that equals *)
(* no blocklist entry is never answered 403 and goes on to the upstream    *)
(* relay, even when an entry occurs elsewhere in the raw URI.              *)
(***************************************************************************)
C2_UnlistedHostNotBlocked ==
    \A s \in Sessions :
        C2_UnlistedHostRequest(s) =>
            /\ "403" \notin {sess[s].errs[i] : i \in 1..Len(sess[s].errs)}
            /\ Returned(s) => "connect" \in sess[s].did

\* The client of s sent, by GET or HEAD, a URI without the http:// prefix or
\* with nothing after the host.
C3_UnresolvableRequest(s) ==
    /\ sess[s].gotline
    /\ IsGetOrHead(sess[s].req)
    /\ \/ ~HasHttpScheme(sess[s].req)
       \/ sess[s].req.port = <<>> /\ sess[s].req.path = <<>>

(***************************************************************************)
(* C3.  A GET or HEAD request whose URI fails resolution (no http://       *)
(* prefix, or nothing after the host) is answered 400 whatever the         *)
(* blocklist holds: no upstream connection, no log record.                 *)
(***************************************************************************)
C3_UnresolvableAnswered400 ==
    \A s \in Sessions :
        C3_UnresolvableRequest(s) =>
            /\ sess[s].did \cap {"connect", "send", "log"} = {}
            /\ Returned(s) => sess[s].errs = <<"400">>

C5_BareHostResolves ==
    \A s \in Sessions :
        ( /\ "parse" \in sess[s].did
          /\ sess[s].req.scheme = S_http
          /\ sess[s].req.port = <<>>
          /\ sess[s].req.path = <<>> ) =>
            sess[s].parse = [ok |-> TRUE, hostname |-> sess[s].req.host,
                             port |-> DefaultPort, pathname |-> S_slash]

(***************************************************************************)
(* C6.  Resolution of http://<host>:<digits><path> gives <host>, the value *)
(* of <digits> and <path>; of http://<host>/<rest> gives <host>, 80 and    *)
(* /<rest>; and fails for every string without the scheme prefix.          *)
(***************************************************************************)
C6_ResolutionByForm ==
    \A s \in Sessions :
        "parse" \in sess[s].did =>
            LET r == sess[s].req IN
            /\ (HasHttpScheme(r) /\ r.path # <<>>) =>
                   sess[s].parse = [ok |-> TRUE, hostname |-> r.host,
                                    port |-> PortValue(r.port),
                                    pathname |-> r.path]
            /\ ~HasHttpScheme(r) => ~sess[s].parse.ok

\* The client addresses of the records written to the log so far.
LoggedAddrs ==
    {log_file[i].ip : i \in 1..Len(log_file)} \cup {logbuf[i].ip : i \in 1..Len(logbuf)}

C8_ClientSocketClosedOnce ==
    variant = "concurrent" =>
        \A s \in Sessions :
            /\ sess[s].closes <= 1
            /\ sess[s].pc = "done" => sess[s].closes = 1
            /\ sess[s].pc # "done" => sess[s].closes = 0

\* Two threads are over, one by an error page and one by a logged relay that
\* a read error cut short.
C8_Witness ==
    /\ variant = "concurrent"
    /\ \E s, u \in Sessions :
          /\ sess[s].pc = "done" /\ sess[s].errs # <<>> /\ sess[s].closes = 1
          /\ sess[u].pc = "done" /\ "log" \in sess[u].did /\ sess[u].closes = 1
          /\ sess[u].resp # <<>>

\* The thread of s is between its lock and its unlock in log_request.
InLogSection(s) == sess[s].pc \in {"fprintf", "fflush", "unlock"}

(***************************************************************************)
(* C9.  At most one thread at a time writes or flushes a record on the     *)
(* shared log handle, and the mutex is free whenever no thread is between  *)
(* its lock and its unlock.                                                *)
(***************************************************************************)
C9_LogWritesExclusive ==
    variant = "concurrent" =>
        /\ \A s, u \in Sessions : (InLogSection(s) /\ InLogSection(u)) => s = u
        /\ \A s \in Sessions : InLogSection(s) <=> log_mutex = s
        /\ (\A s \in Sessions : ~InLogSection(s)) => log_mutex = 0

\* One thread flushes its record while another waits for the mutex.
C9_Witness ==
    \E s, u \in Sessions :
        /\ sess[s].pc = "fflush"
        /\ log_mutex = s
        /\ sess[u].pc = "lock"

(***************************************************************************)
(* C10.  Formatting a log record, writing it and flushing it form one      *)
(* critical section: no thread formats a record while another formats or   *)
(* writes one.                                                             *)
(***************************************************************************)
C10_FormatInsideCriticalSection ==
    variant = "concurrent" =>
        \A s, u \in Sessions :
            (sess[s].pc = "formatting"
                /\ sess[u].pc \in {"formatting", "fprintf", "fflush"}) => s = u

\* The handler has sent its request upstream and has left the read loop.
PastRelay(s) ==
    /\ "send" \in sess[s].did
    /\ sess[s].pc \notin {"relay_read", "relay_write"}

\* The records written so far, flushed or not.
Records == log_file \o logbuf

RecordsOf(s) == {i \in 1..Len(Records) : Records[i].ip = sess[s].clientaddr}

\* Every connection of the run has been dealt with.
Quiescent ==
    /\ accepted = nclients
    /\ \A s \in Sessions : sess[s].pc \in {"idle", "done"}

C13_BlockedRequestLogged ==
    \A s \in Sessions :
       Returned(s) /\ sess[s].errs = <<"403">> => RecordsOf(s) # {}

\* The message the upstream server is to get for a method, a path and a
\* hostname: request line, Host, the User-Agent header once, the two close
\* headers, a blank line.
ExpectedUpstreamMessage(method, path, hostname) ==
    method \o <<" ">> \o path \o <<" ", "HTTP/1.0", CRLF>>
      \o <<"Host: ">> \o hostname \o <<CRLF>>
      \o <<"User-Agent: ", user_agent_hdr[2], CRLF>>
      \o <<"Connection: close", CRLF>>
      \o <<"Proxy-Connection: close", CRLF>>
      \o <<CRLF>>

\* How many times a piece of text occurs in a message.
Occurrences(piece, msg) == Cardinality({i \in 1..Len(msg) : msg[i] = piece})

(***************************************************************************)
(* C14.  A transaction that got past the connection has written exactly    *)
(* one message upstream: "<method> <path> HTTP/1.0", one Host header with  *)
(* the resolved hostname, the fixed User-Agent header with its field name  *)
(* once, Connection: close, Proxy-Connection: close and a blank line,      *)
(* whatever version the client named (the path is "/" when the resolved    *)
(* path is empty).                                                         *)
(***************************************************************************)
C14_UpstreamMessageExact ==
    \A s \in Sessions :
       "send" \in sess[s].did =>
          /\ Len(sess[s].upsent) = 1
          /\ Occurrences("User-Agent: ", sess[s].upsent[1]) = 1
          /\ sess[s].upsent[1] =
                ExpectedUpstreamMessage(sess[s].req.method,
                                        IF sess[s].parse.pathname # <<>>
                                        THEN sess[s].parse.pathname
                                        ELSE S_slash,
                                        sess[s].parse.hostname)

\* The same statement for the sequential proxy alone.
C14_SequentialMessageExact ==
    variant = "sequential" => C14_UpstreamMessageExact

(***************************************************************************)
(* C15.  A session opens at most one upstream connection.  The connection  *)
(* is open only while that session's handler is running, and once opened   *)
(* it is closed exactly once: after the read loop has ended, before the    *)
(* handler returns and so before the client socket is closed.              *)
(***************************************************************************)
C15_UpstreamClosedOnce ==
    \A s \in Sessions :
       /\ sess[s].upopens <= 1
       /\ sess[s].upcloses <= sess[s].upopens
       /\ sess[s].upstream = "open" =>
             /\ sess[s].upopens = 1
             /\ sess[s].pc \notin {"idle", "returned", "done"}
       /\ sess[s].upcloses > 0 => PastRelay(s)
       /\ Returned(s) /\ sess[s].upopens = 1 =>
             /\ sess[s].upstream = "closed"
             /\ sess[s].upcloses = 1
       /\ sess[s].closes > 0 => sess[s].upstream # "open"

\* A thread of the concurrent proxy has closed the connection it opened, has
\* returned from proxy and has had its client socket closed.
C15_Witness ==
    \E s \in Sessions :
       /\ variant = "concurrent"
       /\ sess[s].pc = "done"
       /\ sess[s].upopens = 1
       /\ sess[s].upcloses = 1
       /\ sess[s].closes = 1

(***************************************************************************)
(* C16.  A fault in one handler of the concurrent proxy (a failed upstream *)
(* connection, a read or write error in mid-transaction) ends at most that *)
(* handler's task: the process is still running after it, so that every    *)
(* other handler can complete and main can go on accepting.                *)
(***************************************************************************)
C16_FaultEndsOnlyItsHandler ==
    \A s \in Sessions :
       variant = "concurrent" /\ sess[s].fault # "none" => alive

\* The request of s got past the method check, the filter and the resolver.
NotRefused(s) == sess[s].gotline /\ sess[s].errs = <<>>

\* Every thread has finished and has left nothing open; the requests that
\* were not refused have their upstream socket closed and one record each.
AllFinished ==
    /\ \A s \in Sessions :
          /\ sess[s].pc = "done"
          /\ sess[s].closes = 1
          /\ sess[s].upstream # "open"
          /\ NotRefused(s) =>
                /\ sess[s].upstream = "closed"
                /\ sess[s].upcloses = 1
                /\ Cardinality(RecordsOf(s)) = 1
    /\ log_mutex = 0
    /\ logbuf = <<>>
    /\ (\A s \in Sessions : NotRefused(s)) => Len(log_file) = MaxSessions

(***************************************************************************)
(* C17.  When MaxSessions clients make requests at the same time, to       *)
(* reachable hosts whose servers send a finite response and close, then    *)
(* under fair scheduling every handler thread eventually finishes: every   *)
(* client socket and every upstream socket is closed, and when none of the *)
(* requests was refused the log holds exactly MaxSessions records.         *)
(***************************************************************************)
C17_AllHandlersFinish == <>AllFinished

\* All the requests of a run were relayed, and the log has a record of each.
C17_Witness ==
    /\ AllFinished
    /\ \A s \in Sessions : NotRefused(s)
    /\ Len(log_file) = MaxSessions

(***************************************************************************)
(* C18.  In the sequential proxy the hostname runs from just past the      *)
(* scheme prefix, http:// or https://, to the first delimiter: the URI     *)
(* https://<host>/<path> resolves to the hostname <host> and the path      *)
(* /<path>, as http://<host>/<path> does.                                  *)
(***************************************************************************)
C18_HostnameStartsPastScheme ==
    \A s \in Sessions :
       /\ variant = "sequential"
       /\ "parse" \in sess[s].did
       /\ LowerStr(sess[s].req.scheme) \in {S_http, S_https}
       /\ sess[s].req.path # <<>>
       => /\ sess[s].parse.ok
          /\ sess[s].parse.hostname = sess[s].req.host
          /\ sess[s].parse.pathname = sess[s].req.path

\* q is a prefix of r.
IsPrefix(q, r) == Len(q) <= Len(r) /\ q = SubSeq(r, 1, Len(q))

\* The byte ranges follow one another from the start of the stream, with no
\* gap and no overlap.
InOrder(ranges) ==
    \A k \in 1..Len(ranges) :
       ranges[k].at = TotalBytes(SubSeq(ranges, 1, k - 1))

\* At each step of the relay the bytes written to the client are, in order
\* and unchanged, the first of the bytes read from upstream.
DeliveredIsPrefix ==
    \A s \in Sessions :
       /\ IsPrefix(sess[s].out, sess[s].upin)
       /\ InOrder(sess[s].upin)
       /\ sess[s].delivered = TotalBytes(sess[s].out)

\* At most the bytes of one read wait to be written, and only between that
\* read and its write.
OneLineInHand ==
    \A s \in Sessions :
       /\ Len(sess[s].upin) - Len(sess[s].out) <= 1
       /\ Len(sess[s].upin) # Len(sess[s].out) => sess[s].pc = "relay_write"

\* The relay writes nothing to the client before the request went upstream.
NothingBeforeRequest ==
    \A s \in Sessions :
       sess[s].out # <<>> \/ sess[s].upin # <<>> =>
          /\ "send" \in sess[s].did
          /\ Len(sess[s].upsent) = 1

(***************************************************************************)
(* C19.  During the relay the bytes delivered to the client are at every   *)
(* moment an unmodified, in-order prefix of the bytes read from upstream;  *)
(* each read is written to the client before the next read is issued, so   *)
(* at most one bounded line is held at any time; the relay writes nothing  *)
(* to the client before the upstream request has been sent.                *)
(***************************************************************************)
C19_RelayIsStreamingPrefix ==
    [](DeliveredIsPrefix /\ OneLineInHand /\ NothingBeforeRequest)

\* In the middle of a relay: one read has been forwarded, the next one is in
\* buf and not yet written.
C19_Witness ==
    \E s \in Sessions :
       /\ sess[s].pc = "relay_write"
       /\ Len(sess[s].out) = 1
       /\ Len(sess[s].upin) = 2

(***************************************************************************)
(* C20.  Under every interleaving a handler works with its own session's   *)
(* client address and URI: the record it formats, and the record that      *)
(* reaches the log, carry the address of the client of that session and    *)
(* the URI that client sent, also when main has accepted further           *)
(* connections in the meantime and has overwritten its clientaddr.         *)
(***************************************************************************)
C20_RecordCarriesOwnSession ==
    /\ \A s \in Sessions :
          /\ sess[s].pc # "idle" => sess[s].clientaddr = s
          /\ sess[s].gotline => sess[s].uri = UriOf(sess[s].req)
          /\ sess[s].log_entry # NoEntry =>
                /\ sess[s].log_entry.ip = s
                /\ sess[s].log_entry.uri = UriOf(sess[s].req)
    /\ \A i \in 1..Len(Records) :
          /\ Records[i].ip \in Sessions
          /\ Records[i] = sess[Records[i].ip].log_entry
          /\ Records[i].uri = UriOf(sess[Records[i].ip].req)

\* The thread of the first client wrote its record after main had accepted
\* the second client, whose record, for another URI, is already in the file.
C20_Witness ==
    /\ variant = "concurrent"
    /\ main_clientaddr = 2
    /\ Len(log_file) = 2
    /\ log_file[1].ip = 2
    /\ log_file[2].ip = 1
    /\ log_file[1].uri # log_file[2].uri

\* A load that has ended left the entries the file's non-empty lines name, and
\* its last write went where the count of the lines before it puts it.
LoadAgreesWithFile ==
    loader.pc = "loaded" =>
       /\ blocklist = read_blocklist(loader.whole)
       /\ loader.maxwrite = LastWriteIndex(loader.whole)

(***************************************************************************)
(* C21.  While and after read_blocklist loads a file, blocklist_count is   *)
(* at most MAX_BLOCKLIST and every line it read was written to a row of    *)
(* the blocklist array: no write goes to index MAX_BLOCKLIST or beyond,    *)
(* however many non-empty or empty lines the file has.                     *)
(***************************************************************************)
C21_LoadStaysInsideArray ==
    /\ Len(blocklist) <= MAX_BLOCKLIST
    /\ loader.maxwrite < MAX_BLOCKLIST

====
